---- MODULE Spec2Model ----
(***************************************************************************)
(* Model of the in-process search and relevance ranking of the storefront  *)
(* (src/lib/api/search.ts): fuzzyMatch, levenshteinDistance, the synonym   *)
(* expander, searchProducts and getSearchSuggestions over the product      *)
(* catalog; of the Elasticsearch searchProducts (part_009); of the search  *)
(* box SmartSearch inside SearchProvider, of the AdvancedSearch page        *)
(* (part_007) and of the webhook delivery sendToWebhook (part_013).        *)
(*                                                                         *)
(* A JavaScript string is a sequence of UTF-16 code units; here a string   *)
(* is a sequence of one-character strings.  "Idot" stands for U+0130       *)
(* (capital I with dot above), the code unit whose toLowerCase() is two    *)
(* code units long ("i" followed by the combining dot "dot").  A number    *)
(* is an exact rational <<numerator, denominator>> in lowest terms.        *)
(***************************************************************************)
EXTENDS Integers, Sequences, FiniteSets, TLC

VARIABLES pc, text, query, levResult, fuzzyResult, expandResult,
          mockProducts, scoredProducts, searchResult,
          fetches, suggestionResult,
          filters, esIndex, esRequests, esResult, esFailed,
          smartSearch, searchContext, pending, lastIssued, clearRan,
          advancedSearch, inFlight,
          hooks

vars == <<pc, text, query, levResult, fuzzyResult, expandResult,
          mockProducts, scoredProducts, searchResult,
          fetches, suggestionResult,
          filters, esIndex, esRequests, esResult, esFailed,
          smartSearch, searchContext, pending, lastIssued, clearRan,
          advancedSearch, inFlight,
          hooks>>

searchVars == <<mockProducts, scoredProducts, searchResult>>

suggestVars == <<fetches, suggestionResult>>

esVars == <<filters, esIndex, esRequests, esResult, esFailed>>

storefrontVars == <<smartSearch, searchContext, pending, lastIssued, clearRan>>

advancedVars == <<advancedSearch, inFlight>>

componentVars == <<storefrontVars, advancedVars, hooks>>

(***************************************************************************)
(* Bounds of the enumerated inputs.                                        *)
(***************************************************************************)
MaxLen == 3

Alphabet == {"a", "A", "Idot"}

StringsUpTo(n) == UNION {[1..k -> Alphabet] : k \in 0..n}

Strings == StringsUpTo(MaxLen)

\* queries are at most MaxWords words of the vocabulary, separated by one blank
\* (the empty word gives leading, trailing and doubled blanks)
MaxWords == 3

Vocabulary == {
  <<>>,
  <<"p", "h", "o", "n", "e">>,
  <<"P", "h", "o", "n", "e">>,
  <<"b", "a", "g">>,
  <<"t", "o", "p">>,
  <<"l", "a", "p", "t", "o", "p">>,
  <<"c", "a", "s", "e">>
}

\* catalogs are at most MaxCatalog distinct products of the pool in any order,
\* and one catalog of LargeCatalogExtra products more than the result limit
MaxCatalog == 2

LargeCatalogExtra == 7

ProductPool == <<
  [id |-> 1,
   name |-> <<"p", "h", "o", "n", "e">>,
   description |-> <<"a", " ", "p", "h", "o", "n", "e">>,
   tags |-> <<<<"m", "o", "b", "i", "l", "e">>, <<"c", "e", "l", "l">>>>,
   category |-> <<"t", "e", "c", "h">>],
  [id |-> 2,
   name |-> <<"m", "o", "b", "i", "l", "e", " ", "c", "a", "s", "e">>,
   description |-> <<"c", "a", "s", "e">>,
   tags |-> <<>>,
   category |-> <<"t", "e", "c", "h">>],
  [id |-> 3,
   name |-> <<"a", "x", "x", "x", "x", "x", "x", "x", "x", "x">>,
   description |-> <<"z", "z">>,
   tags |-> <<>>,
   category |-> <<"z", "z">>],
  [id |-> 4,
   name |-> <<"b", "a", "g">>,
   description |-> <<"t", "o", "p", " ", "b", "a", "g">>,
   tags |-> <<<<"p", "u", "r", "s", "e">>>>,
   category |-> <<"w", "e", "a", "r">>],
  [id |-> 5,
   name |-> <<"P", "h", "o", "n", "e">>,
   description |-> <<"a", " ", "p", "h", "o", "n", "e">>,
   tags |-> <<<<"c", "e", "l", "l">>, <<"m", "o", "b", "i", "l", "e">>>>,
   category |-> <<"t", "e", "c", "h">>]
>>

\* the first two products of mockProducts (search.ts 167-196); the t-shirt
\* carries the tag clothing only
HeadphonesCatalog == <<
  [id |-> 1,
   name |-> <<"W", "i", "r", "e", "l", "e", "s", "s", " ", "B", "l", "u", "e", "t",
             "o", "o", "t", "h", " ", "H", "e", "a", "d", "p", "h", "o", "n", "e",
             "s">>,
   description |-> <<"H", "i", "g", "h", "-", "q", "u", "a", "l", "i", "t", "y", " ", "w",
                    "i", "r", "e", "l", "e", "s", "s", " ", "h", "e", "a", "d", "p", "h",
                    "o", "n", "e", "s", " ", "w", "i", "t", "h", " ", "n", "o", "i", "s",
                    "e", " ", "c", "a", "n", "c", "e", "l", "l", "a", "t", "i", "o", "n",
                    " ", "a", "n", "d", " ", "3", "0", "-", "h", "o", "u", "r", " ", "b",
                    "a", "t", "t", "e", "r", "y", " ", "l", "i", "f", "e", ".">>,
   tags |-> <<<<"e", "l", "e", "c", "t", "r", "o", "n", "i", "c", "s">>,
             <<"a", "u", "d", "i", "o">>,
             <<"w", "i", "r", "e", "l", "e", "s", "s">>>>,
   category |-> <<"e", "l", "e", "c", "t", "r", "o", "n", "i", "c", "s">>],
  [id |-> 2,
   name |-> <<"O", "r", "g", "a", "n", "i", "c", " ", "C", "o", "t", "t", "o", "n",
             " ", "T", "-", "S", "h", "i", "r", "t">>,
   description |-> <<"C", "o", "m", "f", "o", "r", "t", "a", "b", "l", "e", " ", "a", "n",
                    "d", " ", "s", "u", "s", "t", "a", "i", "n", "a", "b", "l", "e", " ",
                    "o", "r", "g", "a", "n", "i", "c", " ", "c", "o", "t", "t", "o", "n",
                    " ", "t", "-", "s", "h", "i", "r", "t", " ", "i", "n", " ", "v", "a",
                    "r", "i", "o", "u", "s", " ", "c", "o", "l", "o", "r", "s", ".">>,
   tags |-> <<<<"c", "l", "o", "t", "h", "i", "n", "g">>>>,
   category |-> <<"c", "l", "o", "t", "h", "i", "n", "g">>]
>>

\* a product named by the word phone alone, before a product that a synonym
\* of phone names
SynonymCatalog == <<
  [id |-> 6,
   name |-> <<"p", "h", "o", "n", "e">>,
   description |-> <<"z", "z">>,
   tags |-> <<>>,
   category |-> <<"z", "z">>],
  [id |-> 2,
   name |-> <<"m", "o", "b", "i", "l", "e", " ", "c", "a", "s", "e">>,
   description |-> <<"c", "a", "s", "e">>,
   tags |-> <<>>,
   category |-> <<"t", "e", "c", "h">>]
>>

WirelessHeadphone == <<"w", "i", "r", "e", "l", "e", "s", "s", " ", "h", "e", "a", "d", "p",
                       "h", "o", "n", "e">>

SearchQueries == {
  WirelessHeadphone,
  <<>>,
  <<" ">>,
  <<" ", " ">>,
  <<"p", "h", "o", "n", "e">>,
  <<"P", "h", "o", "n", "e", " ", "c", "a", "s", "e">>,
  <<"a", "b">>,
  <<"q", "q">>
}

(***************************************************************************)
(* Numbers.                                                                *)
(***************************************************************************)
Abs(x) == IF x < 0 THEN -x ELSE x

RECURSIVE GCD(_, _)
GCD(a, b) == IF b = 0 THEN a ELSE GCD(b, a % b)

Rat(n, d) ==
  LET g == GCD(Abs(n), Abs(d))
      s == IF d < 0 THEN -1 ELSE 1
  IN <<(s * n) \div g, (s * d) \div g>>

Zero == <<0, 1>>
One == <<1, 1>>

RLess(x, y) == x[1] * y[2] < y[1] * x[2]
RAdd(x, y) == Rat(x[1] * y[2] + y[1] * x[2], x[2] * y[2])
RSub(x, y) == Rat(x[1] * y[2] - y[1] * x[2], x[2] * y[2])
RTimes(x, k) == Rat(x[1] * k, x[2])

\* Math.max on two numbers
MathMax(x, y) == IF RLess(x, y) THEN y ELSE x

\* TLC evaluates an operator's arguments on first use; testing Evaluated(v)
\* before a recursive call keeps the evaluation of an accumulator shallow
Evaluated(v) == v = v

IntMax(m, n) == IF m < n THEN n ELSE m
Min3(x, y, z) == IF x <= y /\ x <= z THEN x ELSE IF y <= z THEN y ELSE z

(***************************************************************************)
(* String.prototype.toLowerCase and String.prototype.includes              *)
(***************************************************************************)
UpperCase == <<"A", "B", "C", "D", "E", "F", "G", "H", "I", "J", "K", "L", "M",
               "N", "O", "P", "Q", "R", "S", "T", "U", "V", "W", "X", "Y", "Z">>
LowerCase == <<"a", "b", "c", "d", "e", "f", "g", "h", "i", "j", "k", "l", "m",
               "n", "o", "p", "q", "r", "s", "t", "u", "v", "w", "x", "y", "z">>

toLowerChar(c) ==
  IF c = "Idot" THEN <<"i", "dot">>
  ELSE IF \E k \in 1..26 : UpperCase[k] = c
       THEN <<LowerCase[CHOOSE k \in 1..26 : UpperCase[k] = c]>>
       ELSE <<c>>

\* every code unit lower-cased in place; the string is taken in two halves so
\* that the evaluation of a long string stays shallow
RECURSIVE toLowerCase(_)
toLowerCase(s) ==
  IF s = <<>> THEN <<>>
  ELSE IF Len(s) = 1 THEN toLowerChar(s[1])
  ELSE LET half == Len(s) \div 2
       IN toLowerCase(SubSeq(s, 1, half)) \o toLowerCase(SubSeq(s, half + 1, Len(s)))

includes(s, t) == \E i \in 0..(Len(s) - Len(t)) : SubSeq(s, i + 1, i + Len(t)) = t

(***************************************************************************)
(* levenshteinDistance (search.ts 22-47).  Row j of the matrix is the      *)
(* sequence matrix[j][0..str1.length], stored at indices 1..str1.length+1.  *)
(***************************************************************************)
indicatorAlwaysOne(c1, c2) == 1

indicator(c1, c2) == IF c1 = c2 THEN 0 ELSE 1

FirstRowZeros(str1) == [i \in 1..(Len(str1) + 1) |-> 0]

\* matrix[0][i] = i
FirstRow(str1) == [i \in 1..(Len(str1) + 1) |-> i - 1]

\* matrix[j][i] for i = Len(cur); cur holds matrix[j][0..i-1]
cellAfter(str1, str2, prev, j, cur) ==
  LET i == Len(cur)
  IN Min3(cur[i] + 1,
          prev[i + 1] + 1,
          prev[i] + indicator(str1[i], str2[j]))

\* the next n rounds of the inner loop over i, in the order of the loop; the
\* rounds are taken in two halves so that the evaluation stays shallow
RECURSIVE FillCells(_, _, _, _, _, _)
FillCells(str1, str2, prev, j, cur, n) ==
  IF n = 0 THEN cur
  ELSE IF n = 1 THEN Append(cur, cellAfter(str1, str2, prev, j, cur))
  ELSE LET first == FillCells(str1, str2, prev, j, cur, n \div 2)
       IN IF Evaluated(first)
          THEN FillCells(str1, str2, prev, j, first, n - (n \div 2))
          ELSE first

\* the inner loop over i for a fixed j; cur holds matrix[j][0..Len(cur)-1]
FillRow(str1, str2, prev, j, cur) ==
  FillCells(str1, str2, prev, j, cur, Len(str1) + 1 - Len(cur))

\* the outer loop over j; prev is row j-1; matrix[j][0] = j
RECURSIVE FillMatrix(_, _, _, _)
FillMatrix(str1, str2, prev, j) ==
  IF j > Len(str2) THEN prev
  ELSE LET row == FillRow(str1, str2, prev, j, <<j>>)
       IN IF Evaluated(row) THEN FillMatrix(str1, str2, row, j + 1) ELSE row

levenshteinDistance(str1, str2) ==
  FillMatrix(str1, str2, FirstRow(str1), 1)[Len(str1) + 1]

(***************************************************************************)
(* fuzzyMatch (search.ts 5-20)                                             *)
(***************************************************************************)
similarityUnclamped(distance, maxLength) == RSub(One, Rat(distance, maxLength))

similarityOf(distance, maxLength) == MathMax(Zero, RSub(One, Rat(distance, maxLength)))

fuzzyMatchCaseSensitive(t, q) ==
  IF includes(t, q) THEN One
  ELSE similarityOf(levenshteinDistance(t, q), IntMax(Len(t), Len(q)))

fuzzyMatchExactOnly(t, q) ==
  IF includes(toLowerCase(t), toLowerCase(q)) THEN One ELSE Zero

fuzzyMatch(t, q) ==
  LET textLower == toLowerCase(t)
      queryLower == toLowerCase(q)
  IN IF includes(textLower, queryLower) THEN One
     ELSE LET distance == levenshteinDistance(textLower, queryLower)
              maxLength == IntMax(Len(t), Len(q))
          IN similarityOf(distance, maxLength)

(***************************************************************************)
(* The synonym dictionary and expandQueryWithSynonyms (search.ts 49-77)    *)
(***************************************************************************)
synonyms == <<
  \* phone: mobile, smartphone, cell, device
  [key |-> <<"p", "h", "o", "n", "e">>,
   values |-> <<<<"m", "o", "b", "i", "l", "e">>,
               <<"s", "m", "a", "r", "t", "p", "h", "o", "n", "e">>,
               <<"c", "e", "l", "l">>,
               <<"d", "e", "v", "i", "c", "e">>>>],
  \* laptop: computer, notebook, pc
  [key |-> <<"l", "a", "p", "t", "o", "p">>,
   values |-> <<<<"c", "o", "m", "p", "u", "t", "e", "r">>,
               <<"n", "o", "t", "e", "b", "o", "o", "k">>,
               <<"p", "c">>>>],
  \* shirt: top, blouse, tee
  [key |-> <<"s", "h", "i", "r", "t">>,
   values |-> <<<<"t", "o", "p">>,
               <<"b", "l", "o", "u", "s", "e">>,
               <<"t", "e", "e">>>>],
  \* shoes: footwear, sneakers, boots
  [key |-> <<"s", "h", "o", "e", "s">>,
   values |-> <<<<"f", "o", "o", "t", "w", "e", "a", "r">>,
               <<"s", "n", "e", "a", "k", "e", "r", "s">>,
               <<"b", "o", "o", "t", "s">>>>],
  \* bag: purse, handbag, backpack
  [key |-> <<"b", "a", "g">>,
   values |-> <<<<"p", "u", "r", "s", "e">>,
               <<"h", "a", "n", "d", "b", "a", "g">>,
               <<"b", "a", "c", "k", "p", "a", "c", "k">>>>],
  \* watch: timepiece, clock
  [key |-> <<"w", "a", "t", "c", "h">>,
   values |-> <<<<"t", "i", "m", "e", "p", "i", "e", "c", "e">>,
               <<"c", "l", "o", "c", "k">>>>]
>>

WhiteSpace == {" "}

\* String.prototype.split(/\s+/): cut at every maximal run of white space
RECURSIVE splitFrom(_, _, _, _)
splitFrom(s, i, cur, acc) ==
  IF i > Len(s) THEN Append(acc, cur)
  ELSE IF s[i] \in WhiteSpace
       THEN IF i > 1 /\ s[i - 1] \in WhiteSpace
            THEN splitFrom(s, i + 1, cur, acc)
            ELSE splitFrom(s, i + 1, <<>>, Append(acc, cur))
       ELSE splitFrom(s, i + 1, Append(cur, s[i]), acc)

split(s) == splitFrom(s, 1, <<>>, <<>>)

\* how a pattern with the i flag compares code units: by their upper case
canonicalize(c) ==
  IF \E k \in 1..26 : LowerCase[k] = c
  THEN UpperCase[CHOOSE k \in 1..26 : LowerCase[k] = c]
  ELSE c

matchesAt(s, i, word) ==
  /\ i + Len(word) - 1 <= Len(s)
  /\ \A k \in 1..Len(word) : canonicalize(s[i + k - 1]) = canonicalize(word[k])

\* s.replace(new RegExp(word, "gi"), synonym), word a non-empty run of letters:
\* every occurrence of word in s, found left to right, becomes synonym
RECURSIVE replaceFrom(_, _, _, _)
replaceFrom(s, i, word, synonym) ==
  IF i > Len(s) THEN <<>>
  ELSE IF matchesAt(s, i, word)
       THEN synonym \o replaceFrom(s, i + Len(word), word, synonym)
       ELSE <<s[i]>> \o replaceFrom(s, i + 1, word, synonym)

replaceAll(s, word, synonym) == replaceFrom(s, 1, word, synonym)

Range(f) == {f[i] : i \in DOMAIN f}

\* the variants one word pushes for one dictionary entry
RECURSIVE pushSynonyms(_, _, _, _)
pushSynonyms(q, word, allSynonyms, expandedQueries) ==
  IF allSynonyms = <<>> THEN expandedQueries
  ELSE LET pushed == IF Head(allSynonyms) # word
                     THEN Append(expandedQueries, replaceAll(q, word, Head(allSynonyms)))
                     ELSE expandedQueries
       IN IF Evaluated(pushed) THEN pushSynonyms(q, word, Tail(allSynonyms), pushed) ELSE pushed

\* Object.entries(synonyms).forEach for one word
RECURSIVE forEachEntry(_, _, _, _)
forEachEntry(q, word, entries, expandedQueries) ==
  IF entries = <<>> THEN expandedQueries
  ELSE LET e == Head(entries)
           pushed == IF word = e.key \/ word \in Range(e.values)
                     THEN pushSynonyms(q, word, <<e.key>> \o e.values, expandedQueries)
                     ELSE expandedQueries
       IN IF Evaluated(pushed) THEN forEachEntry(q, word, Tail(entries), pushed) ELSE pushed

\* words.forEach
RECURSIVE forEachWord(_, _, _)
forEachWord(q, words, expandedQueries) ==
  IF words = <<>> THEN expandedQueries
  ELSE LET pushed == forEachEntry(q, Head(words), synonyms, expandedQueries)
       IN IF Evaluated(pushed) THEN forEachWord(q, Tail(words), pushed) ELSE pushed

\* [...new Set(xs)]: the first occurrence of every element, in order
RECURSIVE dedupInto(_, _)
dedupInto(xs, out) ==
  IF xs = <<>> THEN out
  ELSE dedupInto(Tail(xs), IF Head(xs) \in Range(out) THEN out ELSE Append(out, Head(xs)))

uniqueKeepAll(xs) == xs

unique(xs) == dedupInto(xs, <<>>)

expandQueryWithSynonyms(q) ==
  LET words == split(toLowerCase(q))
  IN unique(forEachWord(q, words, <<q>>))

(***************************************************************************)
(* searchProducts (search.ts 79-120) over getProducts (search.ts 265-300)  *)
(***************************************************************************)
nameWeight == 3
descriptionWeight == 2
tagWeight == 2
categoryWeight == 1

\* the minimum relevance threshold 0.3
minRelevance == <<3, 10>>

resultLimit == 20

isEmptyString(q) == q = <<>>

\* !query.trim()
isBlank(q) == \A i \in 1..Len(q) : q[i] \in WhiteSpace

\* getProducts({}): a copy of the catalog, no filter and no limit applied
getProducts(catalog) == catalog

mockProductsReplacedBySorted(catalog, sorted) == sorted

\* searchProducts and getSearchSuggestions read the catalog through the copy
\* [...mockProducts] of getProducts and map, filter and sort arrays of their
\* own: the catalog array is left as it was
mockProductsAfterSearch(catalog, sorted) == catalog

\* product.tags.reduce((acc, tag) => Math.max(acc, fuzzyMatch(tag, q)), 0)
RECURSIVE reduceTags(_, _, _)
reduceTags(tags, q, acc) ==
  IF tags = <<>> THEN acc
  ELSE reduceTags(Tail(tags), q, MathMax(acc, fuzzyMatch(Head(tags), q)))

totalScoreUnweighted(product, expandedQuery) ==
  RAdd(RAdd(RAdd(fuzzyMatch(product.name, expandedQuery),
                 fuzzyMatch(product.description, expandedQuery)),
            reduceTags(product.tags, expandedQuery, Zero)),
       fuzzyMatch(product.category, expandedQuery))

totalScore(product, expandedQuery) ==
  LET nameScore == RTimes(fuzzyMatch(product.name, expandedQuery), nameWeight)
      descScore == RTimes(fuzzyMatch(product.description, expandedQuery), descriptionWeight)
      tagScore == RTimes(reduceTags(product.tags, expandedQuery, Zero), tagWeight)
      categoryScore == RTimes(fuzzyMatch(product.category, expandedQuery), categoryWeight)
  IN RAdd(RAdd(RAdd(nameScore, descScore), tagScore), categoryScore)

accumulateSum(maxScore, total) == RAdd(maxScore, total)

\* maxScore = Math.max(maxScore, totalScore)
accumulate(maxScore, total) == MathMax(maxScore, total)

\* expandedQueries.forEach for one product
RECURSIVE forEachExpandedQuery(_, _, _)
forEachExpandedQuery(product, expandedQueries, maxScore) ==
  IF expandedQueries = <<>> THEN maxScore
  ELSE LET updated == accumulate(maxScore, totalScore(product, Head(expandedQueries)))
       IN IF Evaluated(updated)
          THEN forEachExpandedQuery(product, Tail(expandedQueries), updated)
          ELSE updated

\* allProducts.map(product => ({ product, score: maxScore }))
scoreProducts(allProducts, expandedQueries) ==
  [i \in 1..Len(allProducts) |->
     [product |-> allProducts[i],
      score |-> forEachExpandedQuery(allProducts[i], expandedQueries, Zero)]]

passesThresholdInclusive(score) == ~RLess(score, minRelevance)

\* score > 0.3
passesThreshold(score) == RLess(minRelevance, score)

\* Array.prototype.filter
RECURSIVE filterScored(_)
filterScored(xs) ==
  IF xs = <<>> THEN <<>>
  ELSE (IF passesThreshold(Head(xs).score) THEN <<Head(xs)>> ELSE <<>>) \o filterScored(Tail(xs))

comesBeforeStrict(a, b) == RLess(b.score, a.score)

\* the comparator (a, b) => b.score - a.score is not positive: a stays before b
comesBefore(a, b) == ~RLess(a.score, b.score)

\* x is put behind every element that may stay before it
RECURSIVE insertSorted(_, _)
insertSorted(sorted, x) ==
  IF sorted = <<>> THEN <<x>>
  ELSE IF comesBefore(Head(sorted), x)
       THEN <<Head(sorted)>> \o insertSorted(Tail(sorted), x)
       ELSE <<x>> \o sorted

\* Array.prototype.sort, a stable sort
RECURSIVE sortInto(_, _)
sortInto(xs, sorted) ==
  IF xs = <<>> THEN sorted
  ELSE LET inserted == insertSorted(sorted, Head(xs))
       IN IF Evaluated(inserted) THEN sortInto(Tail(xs), inserted) ELSE inserted

sortByScore(xs) == sortInto(xs, <<>>)

\* Array.prototype.slice(0, n)
slice(xs, n) == SubSeq(xs, 1, IF Len(xs) < n THEN Len(xs) ELSE n)

rankScored(scored) ==
  LET sorted == sortByScore(filterScored(scored))
  IN slice([i \in 1..Len(sorted) |-> sorted[i].product], resultLimit)

\* searchProducts(query) has no limit and no offset parameter: whatever page
\* a caller wants, the list it gets is the one list the function returns
pageReturned(result, limit, offset) == result

\* the number of results a caller shows is the length of the returned list
\* (SmartSearch.tsx 116-124)
resultCount(result) == Len(result)

(***************************************************************************)
(* getSearchSuggestions (search.ts 122-162)                                *)
(***************************************************************************)
\* the similarity 0.5 a suggestion has to exceed
minSuggestion == <<1, 2>>

suggestionLimit == 5

minQueryLength == 2

\* !query.trim() || query.length < 2
neverTooShort(q) == FALSE

\* query.length < 2
isTooShort(q) == Len(q) < minQueryLength

addAlways(suggestions, s) == Append(suggestions, s)

\* Set.prototype.add: a Set keeps its members in the order they were added
add(suggestions, s) ==
  IF s \in Range(suggestions) THEN suggestions ELSE Append(suggestions, s)

\* if (fuzzyMatch(s, query) > 0.5) suggestions.add(s)
addIfMatches(suggestions, s, q) ==
  IF RLess(minSuggestion, fuzzyMatch(s, q)) THEN add(suggestions, s) ELSE suggestions

\* product.tags.forEach
RECURSIVE forEachTag(_, _, _)
forEachTag(tags, q, suggestions) ==
  IF tags = <<>> THEN suggestions
  ELSE LET added == addIfMatches(suggestions, Head(tags), q)
       IN IF Evaluated(added) THEN forEachTag(Tail(tags), q, added) ELSE added

\* allProducts.forEach: the name, then the tags, then the category
RECURSIVE forEachProduct(_, _, _)
forEachProduct(products, q, suggestions) ==
  IF products = <<>> THEN suggestions
  ELSE LET product == Head(products)
           withName == addIfMatches(suggestions, product.name, q)
           withTags == forEachTag(product.tags, q, withName)
           withCategory == addIfMatches(withTags, product.category, q)
       IN IF Evaluated(withCategory)
          THEN forEachProduct(Tail(products), q, withCategory)
          ELSE withCategory

\* expandedQueries.forEach: every variant other than the query itself
RECURSIVE forEachSynonymSuggestion(_, _, _)
forEachSynonymSuggestion(expandedQueries, q, suggestions) ==
  IF expandedQueries = <<>> THEN suggestions
  ELSE LET added == IF Head(expandedQueries) # q
                    THEN add(suggestions, Head(expandedQueries))
                    ELSE suggestions
       IN IF Evaluated(added)
          THEN forEachSynonymSuggestion(Tail(expandedQueries), q, added)
          ELSE added

suggestionsOf(allProducts, q) ==
  LET fromProducts == forEachProduct(allProducts, q, <<>>)
      all == forEachSynonymSuggestion(expandQueryWithSynonyms(q), q, fromProducts)
  IN slice(all, suggestionLimit)

(***************************************************************************)
(* searchProducts of the Elasticsearch backend (part_009 149-227), called  *)
(* by AdvancedSearch (part_007 57-83).  An optional value is <<>> when it  *)
(* is undefined and <<v>> when it is v.                                    *)
(***************************************************************************)
defaultSize == 20

defaultFrom == 0

completionSize == 5

\* the truthiness of an optional number
truthyNumber(opt) == opt # <<>> /\ opt[1] # 0

\* the truthiness of an optional string
truthyString(opt) == opt # <<>> /\ opt[1] # ""

\* value || fallback
orElse(opt, fallback) == IF truthyNumber(opt) THEN opt[1] ELSE fallback

NoClause == [field |-> "", term |-> <<>>, gte |-> <<>>, lte |-> <<>>, gt |-> <<>>]

\* if (filters.category) filter.push({ term: { "category.id": filters.category } })
categoryClause(f) ==
  IF truthyString(f.category)
  THEN <<[NoClause EXCEPT !.field = "category.id", !.term = f.category]>>
  ELSE <<>>

\* if (filters.price_min || filters.price_max) filter.push({ range: { price: priceRange } })
priceClause(f) ==
  IF truthyNumber(f.price_min) \/ truthyNumber(f.price_max)
  THEN <<[NoClause EXCEPT !.field = "price",
                          !.gte = IF truthyNumber(f.price_min) THEN f.price_min ELSE <<>>,
                          !.lte = IF truthyNumber(f.price_max) THEN f.price_max ELSE <<>>]>>
  ELSE <<>>

\* if (filters.in_stock) filter.push({ range: { inventory_quantity: { gt: 0 } } })
stockClause(f) ==
  IF f.in_stock
  THEN <<[NoClause EXCEPT !.field = "inventory_quantity", !.gt = <<0>>]>>
  ELSE <<>>

\* the bool.filter of the search body: filters.featured and filters.sort are not read
searchBody(f) == [filter |-> categoryClause(f) \o priceClause(f) \o stockClause(f)]

\* the argument of elasticsearch.search
searchRequest(f) ==
  [body |-> searchBody(f),
   size |-> orElse(f.limit, defaultSize),
   from |-> orElse(f.offset, defaultFrom)]

\* the response the catch block returns
emptyResponse == [products |-> <<>>, suggestions |-> <<>>, total |-> 0]

(***************************************************************************)
(* The search engine behind elasticsearch.search: the documents matching   *)
(* the multi_match clause come in the engine's order of _score; the bool   *)
(* filter keeps the documents every clause holds for, hits.total counts    *)
(* them and from/size cut the window that is returned.                     *)
(***************************************************************************)
fieldOf(doc, field) ==
  CASE field = "category.id" -> doc.category.id
    [] field = "price" -> doc.price
    [] field = "inventory_quantity" -> doc.inventory_quantity

clauseHolds(doc, clause) ==
  LET value == fieldOf(doc, clause.field)
  IN /\ clause.term # <<>> => value = clause.term[1]
     /\ clause.gte # <<>> => value >= clause.gte[1]
     /\ clause.lte # <<>> => value <= clause.lte[1]
     /\ clause.gt # <<>> => value > clause.gt[1]

matching(index, body) ==
  SelectSeq(index, LAMBDA doc : \A k \in 1..Len(body.filter) : clauseHolds(doc, body.filter[k]))

\* a negative size or from is refused by the engine
accepts(request) == request.size >= 0 /\ request.from >= 0

window(hits, from, size) ==
  SubSeq(hits, from + 1, IF from + size < Len(hits) THEN from + size ELSE Len(hits))

\* the completion suggester answers with at most completionSize options
completionOptions(index) ==
  slice([i \in 1..Len(index) |-> index[i].id], completionSize)

search(index, request) ==
  LET matched == matching(index, request.body)
  IN [hits |-> window(matched, request.from, request.size),
      total |-> Len(matched),
      options |-> completionOptions(index)]

\* no call of the Elasticsearch backend
noFilters ==
  [category |-> <<>>, price_min |-> <<>>, price_max |-> <<>>, in_stock |-> FALSE,
   featured |-> FALSE, sort |-> "relevance", limit |-> <<>>, offset |-> <<>>]

EsIdle ==
  /\ filters = noFilters
  /\ esIndex = <<>>
  /\ esRequests = <<>>
  /\ esResult = emptyResponse
  /\ esFailed = FALSE

\* useState("") / useState(false) of SmartSearch
smartSearchInitial == [query |-> <<>>, debouncedQuery |-> <<>>, isOpen |-> FALSE]

\* clearSearch: setSearchResults([]), setSearchSuggestions([]), setIsSearching(false);
\* also the three useState initial values of SearchProvider
clearSearch == [searchResults |-> <<>>, searchSuggestions |-> <<>>, isSearching |-> FALSE]

StorefrontIdle ==
  /\ smartSearch = smartSearchInitial
  /\ searchContext = clearSearch
  /\ pending = <<>>
  /\ lastIssued = <<>>
  /\ clearRan = FALSE

AdvancedIdle ==
  /\ advancedSearch = <<>>
  /\ inFlight = <<>>

WebhookIdle == hooks = <<>>

ComponentsIdle ==
  /\ StorefrontIdle
  /\ AdvancedIdle
  /\ WebhookIdle

(***************************************************************************)
(* The pure functions applied to enumerated arguments.                     *)
(***************************************************************************)
InitFuzzy ==
  /\ pc = "ready"
  /\ text \in Strings
  /\ query \in Strings
  /\ levResult = 0
  /\ fuzzyResult = Zero
  /\ expandResult = <<>>
  /\ mockProducts = <<>>
  /\ scoredProducts = <<>>
  /\ searchResult = <<>>
  /\ fetches = 0
  /\ suggestionResult = <<>>
  /\ EsIdle
  /\ ComponentsIdle

CallFuzzyMatch ==
  /\ pc = "ready"
  /\ fuzzyResult' = fuzzyMatch(text, query)
  /\ pc' = "fuzzyMatch"
  /\ UNCHANGED <<text, query, levResult, expandResult, searchVars, suggestVars, esVars, componentVars>>

CallLevenshteinDistance ==
  /\ pc = "ready"
  /\ levResult' = levenshteinDistance(text, query)
  /\ pc' = "levenshteinDistance"
  /\ UNCHANGED <<text, query, fuzzyResult, expandResult, searchVars, suggestVars, esVars, componentVars>>

NextFuzzy == CallFuzzyMatch \/ CallLevenshteinDistance

SpecFuzzy == InitFuzzy /\ [][NextFuzzy]_vars

\* the words of ws joined by single blanks
RECURSIVE Join(_)
Join(ws) ==
  IF ws = <<>> THEN <<>>
  ELSE IF Len(ws) = 1 THEN ws[1]
  ELSE ws[1] \o <<" ">> \o Join(Tail(ws))

Queries == {Join(ws) : ws \in UNION {[1..k -> Vocabulary] : k \in 0..MaxWords}}

InitExpand ==
  /\ pc = "ready"
  /\ query \in Queries
  /\ text = <<>>
  /\ levResult = 0
  /\ fuzzyResult = Zero
  /\ expandResult = <<>>
  /\ mockProducts = <<>>
  /\ scoredProducts = <<>>
  /\ searchResult = <<>>
  /\ fetches = 0
  /\ suggestionResult = <<>>
  /\ EsIdle
  /\ ComponentsIdle

CallExpandQueryWithSynonyms ==
  /\ pc = "ready"
  /\ expandResult' = expandQueryWithSynonyms(query)
  /\ pc' = "expandQueryWithSynonyms"
  /\ UNCHANGED <<text, query, levResult, fuzzyResult, searchVars, suggestVars, esVars, componentVars>>

NextExpand == CallExpandQueryWithSynonyms

SpecExpand == InitExpand /\ [][NextExpand]_vars

(***************************************************************************)
(* A call of searchProducts(query) against a catalog.                      *)
(***************************************************************************)
SmallCatalogs ==
  {c \in UNION {[1..k -> Range(ProductPool)] : k \in 0..MaxCatalog} :
     \A i, j \in 1..Len(c) : c[i].id = c[j].id => i = j}

\* more products than the result limit, every id different
LargeCatalog ==
  [i \in 1..(resultLimit + LargeCatalogExtra) |->
     [ProductPool[(i % Len(ProductPool)) + 1] EXCEPT !.id = 100 + i]]

Catalogs == SmallCatalogs \cup {LargeCatalog, HeadphonesCatalog, SynonymCatalog}

\* the catalog of the headphones and the t-shirt is searched with the query
\* wireless headphone
Init ==
  /\ pc = "idle"
  /\ query \in SearchQueries
  /\ mockProducts \in Catalogs
  /\ mockProducts = HeadphonesCatalog => query = WirelessHeadphone
  /\ scoredProducts = <<>>
  /\ searchResult = <<>>
  /\ text = <<>>
  /\ levResult = 0
  /\ fuzzyResult = Zero
  /\ expandResult = <<>>
  /\ fetches = 0
  /\ suggestionResult = <<>>
  /\ EsIdle
  /\ ComponentsIdle

\* searchProducts up to its await: the blank query returns at once
SearchProductsCall ==
  /\ pc = "idle"
  /\ IF isBlank(query)
     THEN /\ searchResult' = <<>>
          /\ pc' = "returned"
          /\ UNCHANGED fetches
     ELSE /\ pc' = "awaitGetProducts"
          /\ fetches' = fetches + 1
          /\ UNCHANGED searchResult
  /\ UNCHANGED <<text, query, levResult, fuzzyResult, expandResult, mockProducts, scoredProducts>>
  /\ UNCHANGED <<suggestionResult, esVars, componentVars>>

\* getProducts resolves and searchProducts runs to its return
SearchProductsResume ==
  /\ pc = "awaitGetProducts"
  /\ LET allProducts == getProducts(mockProducts)
         expandedQueries == expandQueryWithSynonyms(query)
         scored == scoreProducts(allProducts, expandedQueries)
     IN /\ expandResult' = expandedQueries
        /\ scoredProducts' = scored
        /\ searchResult' = rankScored(scored)
        /\ mockProducts' = mockProductsAfterSearch(mockProducts, rankScored(scored))
  /\ pc' = "returned"
  /\ UNCHANGED <<text, query, levResult, fuzzyResult, suggestVars, esVars, componentVars>>

\* getSearchSuggestions up to its await: a blank or one-character query returns at once
GetSearchSuggestionsCall ==
  /\ pc = "idle"
  /\ IF isBlank(query) \/ isTooShort(query)
     THEN /\ suggestionResult' = <<>>
          /\ pc' = "suggested"
          /\ UNCHANGED fetches
     ELSE /\ pc' = "awaitGetProductsForSuggestions"
          /\ fetches' = fetches + 1
          /\ UNCHANGED suggestionResult
  /\ UNCHANGED <<text, query, levResult, fuzzyResult, expandResult, searchVars, esVars, componentVars>>

\* getProducts resolves and getSearchSuggestions runs to its return
GetSearchSuggestionsResume ==
  /\ pc = "awaitGetProductsForSuggestions"
  /\ suggestionResult' = suggestionsOf(getProducts(mockProducts), query)
  /\ pc' = "suggested"
  /\ UNCHANGED <<text, query, levResult, fuzzyResult, expandResult, searchVars, fetches, esVars, componentVars>>

Next ==
  \/ SearchProductsCall
  \/ SearchProductsResume
  \/ GetSearchSuggestionsCall
  \/ GetSearchSuggestionsResume

Spec == Init /\ [][Next]_vars

(***************************************************************************)
(* A call of the Elasticsearch searchProducts(query, locale, filters).     *)
(***************************************************************************)
\* the documents indexProduct (part_009 121-146) put into the products index
DocPool == <<
  [id |-> 1, category |-> [id |-> "tech"], price |-> 0,
   inventory_quantity |-> 5, is_featured |-> TRUE],
  [id |-> 2, category |-> [id |-> "tech"], price |-> 30,
   inventory_quantity |-> 0, is_featured |-> FALSE],
  [id |-> 3, category |-> [id |-> "wear"], price |-> 10,
   inventory_quantity |-> 3, is_featured |-> FALSE],
  [id |-> 4, category |-> [id |-> "tech"], price |-> 50,
   inventory_quantity |-> 2, is_featured |-> TRUE]
>>

\* at most MaxHits documents match the query text
MaxHits == 3

\* the matching documents in every order of _score
Indexes ==
  {ix \in UNION {[1..k -> Range(DocPool)] : k \in 0..MaxHits} :
     \A i, j \in 1..Len(ix) : ix[i].id = ix[j].id => i = j}

PriceBounds == {<<>>, <<0>>, <<20>>}

Filters ==
  [category : {<<>>, <<"tech">>},
   price_min : PriceBounds,
   price_max : PriceBounds,
   in_stock : BOOLEAN,
   featured : BOOLEAN,
   sort : {"relevance", "price_asc", "price_desc"},
   limit : {<<>>, <<2>>, <<-1>>},
   offset : {<<>>, <<2>>}]

InitEs ==
  /\ pc = "idle"
  /\ query = <<"p", "h", "o", "n", "e">>
  /\ filters \in Filters
  /\ esIndex \in Indexes
  /\ esRequests = <<>>
  /\ esResult = emptyResponse
  /\ esFailed = FALSE
  /\ text = <<>>
  /\ levResult = 0
  /\ fuzzyResult = Zero
  /\ expandResult = <<>>
  /\ mockProducts = <<>>
  /\ scoredProducts = <<>>
  /\ searchResult = <<>>
  /\ fetches = 0
  /\ suggestionResult = <<>>
  /\ ComponentsIdle

\* searchProducts builds the search body and sends it
EsSearchProductsCall ==
  /\ pc = "idle"
  /\ esRequests' = Append(esRequests, searchRequest(filters))
  /\ pc' = "awaitElasticsearch"
  /\ UNCHANGED <<text, query, levResult, fuzzyResult, expandResult, searchVars, suggestVars, componentVars>>
  /\ UNCHANGED <<filters, esIndex, esResult, esFailed>>

\* the engine answers and searchProducts returns the hits
EsSearchProductsResolve ==
  /\ pc = "awaitElasticsearch"
  /\ accepts(esRequests[Len(esRequests)])
  /\ LET result == search(esIndex, esRequests[Len(esRequests)])
     IN esResult' = [products |-> result.hits,
                     suggestions |-> result.options,
                     total |-> result.total]
  /\ pc' = "returned"
  /\ UNCHANGED <<text, query, levResult, fuzzyResult, expandResult, searchVars, suggestVars, componentVars>>
  /\ UNCHANGED <<filters, esIndex, esRequests, esFailed>>

\* the request fails (the engine refuses it or cannot be reached) and the
\* catch block returns the empty response
EsSearchProductsReject ==
  /\ pc = "awaitElasticsearch"
  /\ esFailed' = TRUE
  /\ esResult' = emptyResponse
  /\ pc' = "returned"
  /\ UNCHANGED <<text, query, levResult, fuzzyResult, expandResult, searchVars, suggestVars, componentVars>>
  /\ UNCHANGED <<filters, esIndex, esRequests>>

NextEs ==
  \/ EsSearchProductsCall
  \/ EsSearchProductsResolve
  \/ EsSearchProductsReject

SpecEs == InitEs /\ [][NextEs]_vars

(***************************************************************************)
(* The storefront search box: SmartSearch (SmartSearch.tsx) inside         *)
(* SearchProvider (SearchContext.tsx), next to a direct caller of the      *)
(* search functions.  getProducts resolves after a fixed 100 ms timer, so   *)
(* the searches in flight complete in the order they were issued: pending   *)
(* is a queue.  Time is not measured: a user action or the debounced query  *)
(* may come at any moment between two completions.  lastIssued is the argument of the latest performSearch      *)
(* call; clearRan says that SmartSearch has run clearSearch since then.     *)
(***************************************************************************)
MaxPending == 2

MaxFetches == 4

minSearchLength == 2

StorefrontCatalog == <<
  [id |-> 7,
   name |-> <<"a", "b", "c">>,
   description |-> <<>>,
   tags |-> <<>>,
   category |-> <<"z", "z">>],
  [id |-> 8,
   name |-> <<"q", "q">>,
   description |-> <<>>,
   tags |-> <<>>,
   category |-> <<"z", "z">>]>>

\* what the user types into the box
Typed == {<<>>, <<"a">>, <<" ", " ">>, <<"a", "b">>, <<"q", "q">>}

\* the queries of the direct caller of getSearchSuggestions
DirectQueries == {<<"a">>, <<"a", "b">>}

\* searchProducts(q) from call to return
searchProductsOf(catalog, q) ==
  IF isBlank(q) THEN <<>>
  ELSE rankScored(scoreProducts(getProducts(catalog), expandQueryWithSynonyms(q)))

\* getSearchSuggestions(q) from call to return
getSearchSuggestionsOf(catalog, q) ==
  IF isBlank(q) \/ isTooShort(q) THEN <<>>
  ELSE suggestionsOf(getProducts(catalog), q)

\* the getProducts calls of Promise.all([searchProducts(q), getSearchSuggestions(q)])
\* for a query that is not blank
getProductsCalls(q) == 1 + (IF isTooShort(q) THEN 0 ELSE 1)

\* performSearch(q) up to its await
performSearch(q) ==
  /\ IF isBlank(q)
     THEN /\ searchContext' = clearSearch
          /\ UNCHANGED <<pending, fetches>>
     ELSE /\ Len(pending) < MaxPending
          /\ fetches + getProductsCalls(q) <= MaxFetches
          /\ searchContext' = [searchContext EXCEPT !.isSearching = TRUE]
          /\ pending' = Append(pending, q)
          /\ fetches' = fetches + getProductsCalls(q)
  /\ lastIssued' = <<q>>
  /\ clearRan' = FALSE

libraryVars == <<pc, text, query, levResult, fuzzyResult, expandResult, searchVars, suggestionResult>>

\* onChange of the input: setQuery(e.target.value)
TypeQuery ==
  /\ \E q \in Typed :
       /\ q # smartSearch.query
       /\ smartSearch' = [smartSearch EXCEPT !.query = q]
  /\ UNCHANGED <<searchContext, pending, lastIssued, clearRan, fetches>>
  /\ UNCHANGED <<libraryVars, esVars, advancedVars, hooks>>

\* useDebounce(query, 300) takes the value of query and the effect on
\* debouncedQuery runs
DebouncedQueryEffect ==
  /\ smartSearch.debouncedQuery # smartSearch.query
  /\ LET debouncedQuery == smartSearch.query
     IN IF Len(debouncedQuery) >= minSearchLength
        THEN /\ performSearch(debouncedQuery)
             /\ smartSearch' = [smartSearch EXCEPT !.debouncedQuery = debouncedQuery, !.isOpen = TRUE]
        ELSE /\ searchContext' = clearSearch
             /\ clearRan' = TRUE
             /\ smartSearch' = [smartSearch EXCEPT !.debouncedQuery = debouncedQuery, !.isOpen = FALSE]
             /\ UNCHANGED <<pending, lastIssued, fetches>>
  /\ UNCHANGED <<libraryVars, esVars, advancedVars, hooks>>

\* handleClear, the button shown while query is not empty
HandleClear ==
  /\ smartSearch.query # <<>>
  /\ smartSearch' = [smartSearch EXCEPT !.query = <<>>, !.isOpen = FALSE]
  /\ searchContext' = clearSearch
  /\ clearRan' = TRUE
  /\ UNCHANGED <<pending, lastIssued, fetches>>
  /\ UNCHANGED <<libraryVars, esVars, advancedVars, hooks>>

\* onClick of a suggestion of the open dropdown
ClickSuggestion ==
  /\ smartSearch.isOpen
  /\ \E k \in 1..Len(searchContext.searchSuggestions) :
       LET suggestion == searchContext.searchSuggestions[k]
       IN /\ smartSearch' = [smartSearch EXCEPT !.query = suggestion]
          /\ performSearch(suggestion)
  /\ UNCHANGED <<libraryVars, esVars, advancedVars, hooks>>

\* onFocus of the input
InputFocus ==
  /\ Len(smartSearch.query) >= minSearchLength
  /\ smartSearch' = [smartSearch EXCEPT !.isOpen = TRUE]
  /\ UNCHANGED <<searchContext, pending, lastIssued, clearRan, fetches>>
  /\ UNCHANGED <<libraryVars, esVars, advancedVars, hooks>>

\* a mouse press outside the box, or a click on a product of the dropdown
CloseDropdown ==
  /\ smartSearch' = [smartSearch EXCEPT !.isOpen = FALSE]
  /\ UNCHANGED <<searchContext, pending, lastIssued, clearRan, fetches>>
  /\ UNCHANGED <<libraryVars, esVars, advancedVars, hooks>>

\* the oldest performSearch in flight resumes after its Promise.all; the
\* catch branch is not reachable, neither search function throws
PerformSearchSettles ==
  /\ pending # <<>>
  /\ LET q == Head(pending)
         results == searchProductsOf(mockProducts, q)
         suggestions == getSearchSuggestionsOf(mockProducts, q)
     IN /\ searchContext' = [searchResults |-> results,
                             searchSuggestions |-> suggestions,
                             isSearching |-> FALSE]
        /\ mockProducts' = mockProductsAfterSearch(mockProducts, results)
  /\ pending' = Tail(pending)
  /\ UNCHANGED <<smartSearch, lastIssued, clearRan, fetches>>
  /\ UNCHANGED <<pc, text, query, levResult, fuzzyResult, expandResult, scoredProducts, searchResult, suggestionResult>>
  /\ UNCHANGED <<esVars, advancedVars, hooks>>

\* the page after the mount effect: debouncedQuery is "", clearSearch has run
InitStorefront ==
  /\ pc = "idle"
  /\ query \in DirectQueries
  /\ mockProducts = StorefrontCatalog
  /\ scoredProducts = <<>>
  /\ searchResult = <<>>
  /\ text = <<>>
  /\ levResult = 0
  /\ fuzzyResult = Zero
  /\ expandResult = <<>>
  /\ fetches = 0
  /\ suggestionResult = <<>>
  /\ EsIdle
  /\ smartSearch = smartSearchInitial
  /\ searchContext = clearSearch
  /\ pending = <<>>
  /\ lastIssued = <<>>
  /\ clearRan = TRUE
  /\ AdvancedIdle
  /\ WebhookIdle

NextStorefront ==
  \/ GetSearchSuggestionsCall
  \/ GetSearchSuggestionsResume
  \/ TypeQuery
  \/ DebouncedQueryEffect
  \/ HandleClear
  \/ ClickSuggestion
  \/ InputFocus
  \/ CloseDropdown
  \/ PerformSearchSettles

SpecStorefront == InitStorefront /\ [][NextStorefront]_vars

(***************************************************************************)
(* AdvancedSearch (part_007), the search page on the Elasticsearch         *)
(* backend.  Every setFilters makes a new filters object, so the effect on  *)
(* [debouncedQuery, filters] runs after every change of a filter and after  *)
(* every change of the debounced query; the requests in flight are answered *)
(* by the network in any order.                                            *)
(***************************************************************************)
MaxInFlight == 2

defaultPriceRange == <<0, 1000>>

\* useState of filters
defaultFilters ==
  [query |-> <<>>, categories |-> <<>>, priceRange |-> defaultPriceRange,
   inStock |-> FALSE, featured |-> FALSE, sortBy |-> "relevance"]

\* the component before its first render has been committed
unmounted ==
  [mounted |-> FALSE, filters |-> defaultFilters, debouncedQuery |-> <<>>,
   results |-> <<>>, suggestions |-> <<>>, totalResults |-> 0, loading |-> FALSE]

AdvancedTyped == {<<>>, <<"a", "b">>}

PriceRanges == {defaultPriceRange, <<0, 20>>}

\* what the backend answers: nothing, or one product and one suggestion
Responses ==
  {emptyResponse,
   [products |-> <<DocPool[1]>>, suggestions |-> <<<<"a", "b", "c">>>>, total |-> 1]}

\* Object.values(filters).some(v => Array.isArray(v) ? v.length > 0
\*                                  : typeof v === "boolean" ? v : false)
someFilterValue(f) ==
  \/ FALSE                      \* query: a string
  \/ Len(f.categories) > 0
  \/ Len(f.priceRange) > 0
  \/ f.inStock
  \/ f.featured
  \/ FALSE                      \* sortBy: a string

\* the arguments of searchProducts(debouncedQuery, locale, searchFilters)
searchArguments(f, debouncedQuery) ==
  [query |-> debouncedQuery,
   filters |-> [category |-> IF Len(f.categories) > 0 THEN <<f.categories[1]>> ELSE <<>>,
                price_min |-> <<f.priceRange[1]>>,
                price_max |-> <<f.priceRange[2]>>,
                in_stock |-> f.inStock,
                featured |-> f.featured,
                sort |-> f.sortBy,
                limit |-> <<defaultSize>>,
                offset |-> <<defaultFrom>>]]

\* the effect on [debouncedQuery, filters], run on the component state a
searchEffect(a) ==
  IF Len(a.debouncedQuery) >= minSearchLength \/ someFilterValue(a.filters)
  THEN /\ Len(inFlight) < MaxInFlight
       /\ advancedSearch' = [a EXCEPT !.loading = TRUE]
       /\ inFlight' = Append(inFlight, searchArguments(a.filters, a.debouncedQuery))
  ELSE /\ advancedSearch' = [a EXCEPT !.results = <<>>, !.suggestions = <<>>, !.totalResults = 0]
       /\ UNCHANGED inFlight

otherThanAdvanced == <<libraryVars, fetches, esVars, storefrontVars, hooks>>

\* the first render is committed and the effect runs
AdvancedMount ==
  /\ ~advancedSearch.mounted
  /\ searchEffect([advancedSearch EXCEPT !.mounted = TRUE])
  /\ UNCHANGED otherThanAdvanced

\* a handler has called setFilters: the component renders with the new
\* filters and the effect runs
setFilters(f) ==
  /\ f # advancedSearch.filters
  /\ searchEffect([advancedSearch EXCEPT !.filters = f])
  /\ UNCHANGED otherThanAdvanced

\* onChange of the input
AdvancedTypeQuery ==
  /\ advancedSearch.mounted
  /\ \E q \in AdvancedTyped : setFilters([advancedSearch.filters EXCEPT !.query = q])

\* onClick of a suggestion, shown while the query has 2 characters or more
AdvancedClickSuggestion ==
  /\ advancedSearch.mounted
  /\ Len(advancedSearch.filters.query) >= minSearchLength
  /\ \E k \in 1..Len(advancedSearch.suggestions) :
       setFilters([advancedSearch.filters EXCEPT !.query = advancedSearch.suggestions[k]])

\* onValueChange of the price slider
SetPriceRange ==
  /\ advancedSearch.mounted
  /\ \E range \in PriceRanges : setFilters([advancedSearch.filters EXCEPT !.priceRange = range])

\* onCheckedChange of the two checkboxes
SetInStock ==
  /\ advancedSearch.mounted
  /\ \E checked \in BOOLEAN : setFilters([advancedSearch.filters EXCEPT !.inStock = checked])

SetFeatured ==
  /\ advancedSearch.mounted
  /\ \E checked \in BOOLEAN : setFilters([advancedSearch.filters EXCEPT !.featured = checked])

\* removeFilter(type) from a badge shown while its filter is active
removeFilter ==
  /\ advancedSearch.mounted
  /\ \E type \in {"inStock", "featured", "priceRange"} :
       CASE type = "inStock" ->
              /\ advancedSearch.filters.inStock
              /\ setFilters([advancedSearch.filters EXCEPT !.inStock = FALSE])
         [] type = "featured" ->
              /\ advancedSearch.filters.featured
              /\ setFilters([advancedSearch.filters EXCEPT !.featured = FALSE])
         [] type = "priceRange" ->
              /\ advancedSearch.filters.priceRange # defaultPriceRange
              /\ setFilters([advancedSearch.filters EXCEPT !.priceRange = defaultPriceRange])

\* the number shown on the filter button
activeFiltersCount(f) ==
  Len(f.categories) + (IF f.inStock THEN 1 ELSE 0) + (IF f.featured THEN 1 ELSE 0)
    + (IF f.priceRange[1] > 0 \/ f.priceRange[2] < 1000 THEN 1 ELSE 0)

\* the button shown while a filter is active
clearFilters ==
  /\ advancedSearch.mounted
  /\ activeFiltersCount(advancedSearch.filters) > 0
  /\ setFilters(defaultFilters)

\* useDebounce(filters.query, 300) takes the value of filters.query and the
\* effect runs
AdvancedDebounce ==
  /\ advancedSearch.mounted
  /\ advancedSearch.debouncedQuery # advancedSearch.filters.query
  /\ searchEffect([advancedSearch EXCEPT !.debouncedQuery = advancedSearch.filters.query])
  /\ UNCHANGED otherThanAdvanced

\* the sequence without its k-th entry
without(seq, k) == SubSeq(seq, 1, k - 1) \o SubSeq(seq, k + 1, Len(seq))

\* a performSearch resumes after its await; searchProducts of the backend
\* never rejects, it answers emptyResponse when the engine fails
AdvancedSearchSettles ==
  /\ \E k \in 1..Len(inFlight) : \E result \in Responses :
       /\ advancedSearch' = [advancedSearch EXCEPT !.results = result.products,
                                                   !.suggestions = result.suggestions,
                                                   !.totalResults = result.total,
                                                   !.loading = FALSE]
       /\ inFlight' = without(inFlight, k)
  /\ UNCHANGED otherThanAdvanced

InitAdvanced ==
  /\ pc = "idle"
  /\ query = <<>>
  /\ mockProducts = <<>>
  /\ scoredProducts = <<>>
  /\ searchResult = <<>>
  /\ text = <<>>
  /\ levResult = 0
  /\ fuzzyResult = Zero
  /\ expandResult = <<>>
  /\ fetches = 0
  /\ suggestionResult = <<>>
  /\ EsIdle
  /\ StorefrontIdle
  /\ advancedSearch = unmounted
  /\ inFlight = <<>>
  /\ WebhookIdle

NextAdvanced ==
  \/ AdvancedMount
  \/ removeFilter
  \/ clearFilters
  \/ AdvancedTypeQuery
  \/ AdvancedClickSuggestion
  \/ SetPriceRange
  \/ SetInStock
  \/ SetFeatured
  \/ AdvancedDebounce
  \/ AdvancedSearchSettles

SpecAdvanced == InitAdvanced /\ [][NextAdvanced]_vars

(***************************************************************************)
(* sendWebhook and sendToWebhook (part_013): one event is sent to every    *)
(* registered webhook, the deliveries run side by side.  For each webhook   *)
(* posts counts the HTTP requests made, delivered says that a request has   *)
(* been answered with a 2xx status, and postedAgain that a request was made *)
(* after that.                                                             *)
(***************************************************************************)
MaxWebhooks == 2

maxRetries == 3

\* the status codes an endpoint answers with
Statuses == {200, 500}

\* response.ok
ok(status) == status >= 200 /\ status <= 299

\* sendToWebhook at its first loop test
started ==
  [pc |-> "fetch", attempt |-> 0, status |-> 0, posts |-> 0,
   delivered |-> FALSE, postedAgain |-> FALSE]

\* the catch block up to its await
catch(h) ==
  LET attempt == h.attempt + 1
  IN [h EXCEPT !.attempt = attempt,
               !.pc = IF attempt < maxRetries THEN "backoff" ELSE "logFailure"]

otherThanWebhook == <<libraryVars, fetches, esVars, storefrontVars, advancedVars>>

\* sendWebhook: the rows of the webhooks query, one sendToWebhook per row; no
\* row, or a failed query, sends nothing
SendWebhook ==
  /\ pc = "idle"
  /\ \E rows \in SUBSET (1..MaxWebhooks) : hooks' = [w \in rows |-> started]
  /\ pc' = "allSettled"
  /\ UNCHANGED <<text, query, levResult, fuzzyResult, expandResult, searchVars, suggestVars>>
  /\ UNCHANGED <<esVars, storefrontVars, advancedVars>>

\* await fetch(...): a response with a status, or a rejection (network
\* error, the 30 s timeout)
Fetch ==
  /\ \E w \in DOMAIN hooks :
       /\ hooks[w].pc = "fetch"
       /\ LET posted == [hooks[w] EXCEPT !.posts = @ + 1,
                                         !.postedAgain = @ \/ hooks[w].delivered]
          IN \/ \E status \in Statuses :
                  hooks' = [hooks EXCEPT ![w] = [posted EXCEPT !.status = status,
                                                               !.delivered = @ \/ ok(status),
                                                               !.pc = "logDelivery"]]
             \/ hooks' = [hooks EXCEPT ![w] = catch(posted)]
  /\ UNCHANGED <<pc, otherThanWebhook>>

\* await query(INSERT INTO webhook_deliveries ...) after a response: the
\* insert succeeds and the status decides, or the insert rejects
LogDelivery ==
  /\ \E w \in DOMAIN hooks :
       /\ hooks[w].pc = "logDelivery"
       /\ \/ hooks' = [hooks EXCEPT ![w] = IF ok(hooks[w].status)
                                           THEN [hooks[w] EXCEPT !.pc = "returned"]
                                           ELSE catch(hooks[w])]
          \/ hooks' = [hooks EXCEPT ![w] = catch(hooks[w])]
  /\ UNCHANGED <<pc, otherThanWebhook>>

\* the backoff timer fires and the loop test attempt < maxRetries holds
Backoff ==
  /\ \E w \in DOMAIN hooks :
       /\ hooks[w].pc = "backoff"
       /\ hooks' = [hooks EXCEPT ![w].pc = "fetch"]
  /\ UNCHANGED <<pc, otherThanWebhook>>

\* await query(INSERT ...) of the failed delivery: after it the loop test
\* fails and sendToWebhook returns; when the insert rejects, so does
\* sendToWebhook
LogFailure ==
  /\ \E w \in DOMAIN hooks :
       /\ hooks[w].pc = "logFailure"
       /\ \E next \in {"returned", "rejected"} : hooks' = [hooks EXCEPT ![w].pc = next]
  /\ UNCHANGED <<pc, otherThanWebhook>>

InitWebhook ==
  /\ pc = "idle"
  /\ query = <<>>
  /\ mockProducts = <<>>
  /\ scoredProducts = <<>>
  /\ searchResult = <<>>
  /\ text = <<>>
  /\ levResult = 0
  /\ fuzzyResult = Zero
  /\ expandResult = <<>>
  /\ fetches = 0
  /\ suggestionResult = <<>>
  /\ EsIdle
  /\ ComponentsIdle

NextWebhook ==
  \/ SendWebhook
  \/ Fetch
  \/ LogDelivery
  \/ Backoff
  \/ LogFailure

SpecWebhook == InitWebhook /\ [][NextWebhook]_vars

\* every await of sendToWebhook settles: fetch has a timeout, the timer
\* fires, the database answers or fails
SpecWebhookFair == SpecWebhook /\ WF_vars(NextWebhook)

(***************************************************************************)
(* Reference notions the properties are stated with.                       *)
(***************************************************************************)
\* the classic edit distance: insertion, deletion and substitution cost 1
RECURSIVE EditDistance(_, _)
EditDistance(a, b) ==
  IF a = <<>> THEN Len(b)
  ELSE IF b = <<>> THEN Len(a)
  ELSE IF Head(a) = Head(b) THEN EditDistance(Tail(a), Tail(b))
  ELSE 1 + Min3(EditDistance(Tail(a), b),
                EditDistance(a, Tail(b)),
                EditDistance(Tail(a), Tail(b)))

\* t occurs in s as a contiguous block
IsSubstring(s, t) ==
  \E m \in 0..Len(s) : \E n \in m..Len(s) : SubSeq(s, m + 1, n) = t

FoldedContains == IsSubstring(toLowerCase(text), toLowerCase(query))

\* C4: whenever the lower-cased text contains the lower-cased query,
\* fuzzyMatch(text, query) is exactly 1; in particular fuzzyMatch(s, s) = 1
\* for every s, the empty string included.
C4_SubstringScoresOne ==
  pc = "fuzzyMatch" =>
    /\ FoldedContains => fuzzyResult = One
    /\ text = query => fuzzyResult = One

C4_Witness ==
  /\ pc = "fuzzyMatch"
  /\ FoldedContains
  /\ ~IsSubstring(text, query)
  /\ query # <<>>
  /\ fuzzyResult = One

\* C5: when the lower-cased text does not contain the lower-cased query,
\* fuzzyMatch(text, query) = max(0, 1 - d / max(len(text), len(query))) with d
\* the edit distance of the lower-cased strings; every result lies in [0, 1].
C5_DistanceFormula ==
  pc = "fuzzyMatch" =>
    /\ ~FoldedContains =>
         LET d == EditDistance(toLowerCase(text), toLowerCase(query))
             m == IF Len(text) >= Len(query) THEN Len(text) ELSE Len(query)
             v == <<m - d, m>>
         IN IF m - d <= 0 THEN fuzzyResult = Zero
            ELSE fuzzyResult[1] * v[2] = v[1] * fuzzyResult[2]
    /\ ~RLess(fuzzyResult, Zero)
    /\ ~RLess(One, fuzzyResult)

C5_Witness ==
  /\ pc = "fuzzyMatch"
  /\ ~FoldedContains
  /\ RLess(Zero, fuzzyResult)
  /\ RLess(fuzzyResult, One)

\* C6: levenshteinDistance(a, b) is the classic edit distance: 0 exactly when
\* a = b, the other string's length when one is empty, and symmetric.
C6_ClassicEditDistance ==
  pc = "levenshteinDistance" =>
    /\ levResult = EditDistance(text, query)
    /\ (levResult = 0) <=> (text = query)
    /\ text = <<>> => levResult = Len(query)
    /\ query = <<>> => levResult = Len(text)
    /\ levResult = levenshteinDistance(query, text)

C6_Witness ==
  /\ pc = "levenshteinDistance"
  /\ Len(query) >= 2
  /\ Len(text) = Len(query) + 1
  /\ levResult = 2

\* C7: when exactly one of text and query is empty, fuzzyMatch is 0,
\* whichever of the two is the empty one.
C7_OneEmptyScoresZero ==
  (pc = "fuzzyMatch" /\ ((text = <<>>) # (query = <<>>))) => fuzzyResult = Zero

(***************************************************************************)
(* Reference notions for the synonym expander.                             *)
(***************************************************************************)
\* s cut into its maximal runs of white space and of other characters
RECURSIVE RunsFrom(_, _, _, _)
RunsFrom(s, i, cur, acc) ==
  IF i > Len(s) THEN (IF cur = <<>> THEN acc ELSE Append(acc, cur))
  ELSE IF cur = <<>> \/ ((s[i] \in WhiteSpace) = (cur[1] \in WhiteSpace))
       THEN RunsFrom(s, i + 1, Append(cur, s[i]), acc)
       ELSE RunsFrom(s, i + 1, <<s[i]>>, Append(acc, cur))

Runs(s) == RunsFrom(s, 1, <<>>, <<>>)

RECURSIVE Concat(_)
Concat(ss) == IF ss = <<>> THEN <<>> ELSE Head(ss) \o Concat(Tail(ss))

\* the whitespace-delimited tokens of s, as written
Tokens(s) == {r \in Range(Runs(s)) : r[1] \notin WhiteSpace}

\* s with every token equal to t replaced by syn and all else unchanged
\* (tokens are compared as written, or ignoring case when foldCase)
TokenReplace(s, t, syn, foldCase) ==
  LET same(r) == IF foldCase THEN toLowerCase(r) = toLowerCase(t) ELSE r = t
      rs == Runs(s)
  IN Concat([i \in 1..Len(rs) |-> IF same(rs[i]) THEN syn ELSE rs[i]])

Group(e) == {e.key} \cup Range(e.values)

Groups == {Group(synonyms[i]) : i \in 1..Len(synonyms)}

\* the dictionary-matched tokens of the query, lower-cased
MatchedTokens(q) ==
  {toLowerCase(t) : t \in {u \in Tokens(q) : \E g \in Groups : toLowerCase(u) \in g}}

GroupOf(w) == CHOOSE g \in Groups : w \in g

\* the sum over the words of S of (size of the word's group - 1)
RECURSIVE SumGroupExtras(_)
SumGroupExtras(S) ==
  IF S = {} THEN 0
  ELSE LET w == CHOOSE y \in S : TRUE
       IN (Cardinality(GroupOf(w)) - 1) + SumGroupExtras(S \ {w})

Expanded == pc = "expandQueryWithSynonyms"

PhoneCase == <<"p", "h", "o", "n", "e", " ", "c", "a", "s", "e">>

PhoneCaseVariants ==
  {PhoneCase,
   <<"m", "o", "b", "i", "l", "e", " ", "c", "a", "s", "e">>,
   <<"s", "m", "a", "r", "t", "p", "h", "o", "n", "e", " ", "c", "a", "s", "e">>,
   <<"c", "e", "l", "l", " ", "c", "a", "s", "e">>,
   <<"d", "e", "v", "i", "c", "e", " ", "c", "a", "s", "e">>}

\* C8: the expansion has no duplicate strings and the query itself, verbatim,
\* occurs in it exactly once, as the first element.
C8_OriginalOnceNoDuplicates ==
  Expanded =>
    /\ \A i, j \in 1..Len(expandResult) : expandResult[i] = expandResult[j] => i = j
    /\ Len(expandResult) >= 1
    /\ expandResult[1] = query
    /\ Cardinality({i \in 1..Len(expandResult) : expandResult[i] = query}) = 1

C8_Witness ==
  /\ Expanded
  /\ Len(forEachWord(query, split(toLowerCase(query)), <<query>>)) > Len(expandResult)
  /\ Len(expandResult) > 1

\* C9: for every token t of the query that is a dictionary term, and every
\* other term s of its group, the expansion contains the query with token t
\* replaced by s; expand("phone case") is exactly the five phone variants.
C9_EveryGroupTermSubstituted ==
  Expanded =>
    /\ \A t \in Tokens(query) : \A g \in Groups :
         t \in g =>
           \A syn \in g \ {t} :
             \/ TokenReplace(query, t, syn, FALSE) \in Range(expandResult)
             \/ TokenReplace(query, t, syn, TRUE) \in Range(expandResult)
    /\ query = PhoneCase => Range(expandResult) = PhoneCaseVariants

\* the variant is the query with the tokens equal to one matched token
\* replaced by one other term of that token's group
SingleTokenSubstitution(v, q) ==
  \E w \in MatchedTokens(q) : \E syn \in GroupOf(w) \ {w} :
    \E t \in {u \in Tokens(q) : toLowerCase(u) = w} :
      v = TokenReplace(q, t, syn, TRUE) \/ v = TokenReplace(q, t, syn, FALSE)

\* the matched tokens of q in whose place v has another term of their group
SubstitutedTokens(v, q) ==
  LET rq == Runs(q)
      rv == Runs(v)
  IN IF Len(rq) # Len(rv) THEN {}
     ELSE {toLowerCase(rq[i]) : i \in {k \in 1..Len(rq) :
             /\ toLowerCase(rq[k]) \in MatchedTokens(q)
             /\ rv[k] # rq[k]
             /\ rv[k] \in GroupOf(toLowerCase(rq[k]))}}

C10_EachVariantOneToken ==
  Expanded => \A i \in 2..Len(expandResult) : SingleTokenSubstitution(expandResult[i], query)

C10_NoTwoTokens ==
  Expanded => \A i \in 1..Len(expandResult) :
                Cardinality(SubstitutedTokens(expandResult[i], query)) <= 1

C10_CountBound ==
  Expanded =>
    Len(expandResult) <= 1 + SumGroupExtras(MatchedTokens(query))

\* C10: expansion is single-token, not Cartesian: every variant other than the
\* original is the query with one matched token replaced by one term of its
\* group, no variant has two different matched tokens substituted, and there
\* are at most 1 + the sum over matched tokens of (group size - 1) variants.
C10_SingleTokenNotCartesian ==
  /\ C10_EachVariantOneToken
  /\ C10_NoTwoTokens
  /\ C10_CountBound

(***************************************************************************)
(* Reference notions for the relevance score.                              *)
(***************************************************************************)
\* the greatest number of a non-empty set
Greatest(S) == CHOOSE m \in S : \A x \in S : ~RLess(m, x)

BestTag(p, v) ==
  IF p.tags = <<>> THEN Zero
  ELSE Greatest({fuzzyMatch(p.tags[k], v) : k \in 1..Len(p.tags)})

\* 3*similarity(name) + 2*similarity(description) + 2*best tag + 1*similarity(category)
WeightedSum(p, v) ==
  RAdd(RAdd(RTimes(fuzzyMatch(p.name, v), 3), RTimes(fuzzyMatch(p.description, v), 2)),
       RAdd(RTimes(BestTag(p, v), 2), fuzzyMatch(p.category, v)))

RelevanceScore(p, q) ==
  Greatest({WeightedSum(p, v) : v \in Range(expandQueryWithSynonyms(q))})

Searched == pc = "returned" /\ ~isBlank(query)

Threshold == <<3, 10>>

\* C1: the score searchProducts assigns to every product is the maximum over
\* the query's variants of 3*sim(name) + 2*sim(description) + 2*(best tag, 0
\* without tags) + 1*sim(category): the maximum, not the sum.
C1_ScoreIsMaxOverVariants ==
  Searched =>
    /\ Len(scoredProducts) = Len(mockProducts)
    /\ \A i \in 1..Len(scoredProducts) :
         /\ scoredProducts[i].product = mockProducts[i]
         /\ scoredProducts[i].score = RelevanceScore(mockProducts[i], query)

C1_Witness ==
  /\ Searched
  /\ \E i \in 1..Len(scoredProducts) :
       LET p == scoredProducts[i].product
       IN /\ RLess(WeightedSum(p, query), scoredProducts[i].score)
          /\ p.tags = <<>>
          /\ Cardinality({v \in Range(expandResult) : RLess(Zero, WeightedSum(p, v))}) >= 2

\* C2: for a non-blank query a product is returned only if its score is
\* strictly greater than 0.3, every product scoring above 0.3 is returned
\* unless the limit of 20 cuts it off, and when none scores above 0.3 the
\* result is empty.
C2_ThresholdFilter ==
  Searched =>
    LET Passing == {i \in 1..Len(mockProducts) :
                      RLess(Threshold, RelevanceScore(mockProducts[i], query))}
    IN /\ \A k \in 1..Len(searchResult) : \E i \in Passing : mockProducts[i] = searchResult[k]
       /\ \A k, l \in 1..Len(searchResult) : searchResult[k].id = searchResult[l].id => k = l
       /\ Len(searchResult) = (IF Cardinality(Passing) < 20 THEN Cardinality(Passing) ELSE 20)
       /\ Passing = {} => searchResult = <<>>

C2_Witness ==
  /\ Searched
  /\ Len(searchResult) = 20
  /\ \E i \in 1..Len(scoredProducts) : scoredProducts[i].score = Threshold
  /\ Cardinality({i \in 1..Len(scoredProducts) : RLess(Threshold, scoredProducts[i].score)}) > 20

PositionInCatalog(p) == CHOOSE k \in 1..Len(mockProducts) : mockProducts[k].id = p.id

\* C3: the returned list is in non-increasing order of score, and returned
\* products with equal scores keep their relative order of the catalog.
C3_DescendingStable ==
  Searched =>
    LET sc == [k \in 1..Len(searchResult) |-> RelevanceScore(searchResult[k], query)]
        at == [k \in 1..Len(searchResult) |-> PositionInCatalog(searchResult[k])]
    IN \A k, l \in 1..Len(searchResult) :
         k < l => /\ ~RLess(sc[k], sc[l])
                  /\ sc[k] = sc[l] => at[k] < at[l]

C3_Witness ==
  /\ Searched
  /\ \E k, l \in 1..Len(searchResult) :
       /\ k < l
       /\ PositionInCatalog(searchResult[k]) > PositionInCatalog(searchResult[l])
  /\ \E k, l \in 1..Len(scoredProducts) :
       /\ k < l
       /\ scoredProducts[k].score = scoredProducts[l].score
       /\ scoredProducts[k].product \in Range(searchResult)
       /\ scoredProducts[l].product \in Range(searchResult)

(***************************************************************************)
(* Blank queries, the scenario catalog, ranking, paging and totals.        *)
(***************************************************************************)
\* the query has no character other than white space
WhitespaceOnly(q) == Tokens(q) = {}

\* C11: for an empty or whitespace-only query searchProducts returns the
\* empty list and getSearchSuggestions the empty list (a total of 0), and
\* neither has called getProducts when it returns.
C11_BlankQueryNoFetch ==
  (WhitespaceOnly(query) /\ pc \in {"returned", "suggested"}) =>
    /\ searchResult = <<>>
    /\ suggestionResult = <<>>
    /\ Len(searchResult) = 0
    /\ fetches = 0

C11_Witness ==
  /\ pc = "suggested"
  /\ query = <<" ", " ">>
  /\ suggestionResult = <<>>
  /\ fetches = 0

\* C13 as stated: for the catalog of the headphones and the t-shirt,
\* searchProducts("wireless headphone") returns the headphones alone (a total
\* of 1), the t-shirt scoring 0.
C13_TShirtScoresZero ==
  (Searched /\ mockProducts = HeadphonesCatalog /\ query = WirelessHeadphone) =>
    /\ searchResult = <<HeadphonesCatalog[1]>>
    /\ Len(searchResult) = 1
    /\ scoredProducts[2].score = Zero

\* C13: for the catalog of the headphones and the t-shirt,
\* searchProducts("wireless headphone") returns the headphones first and the
\* t-shirt second (a total of 2): the t-shirt scores 523/506, which is above
\* the threshold 0.3, and the headphones score 2567/522.
C13_HeadphonesFirstTShirtSecond ==
  (Searched /\ mockProducts = HeadphonesCatalog /\ query = WirelessHeadphone) =>
    /\ searchResult = <<HeadphonesCatalog[1], HeadphonesCatalog[2]>>
    /\ Len(searchResult) = 2
    /\ scoredProducts[1].score = <<2567, 522>>
    /\ scoredProducts[2].score = <<523, 506>>
    /\ RLess(Threshold, scoredProducts[2].score)

C13_Witness ==
  /\ Searched
  /\ mockProducts = HeadphonesCatalog
  /\ query = WirelessHeadphone
  /\ Len(searchResult) = 2
  /\ searchResult[1].id = 1

\* the product's name contains the query, letter case ignored
NameContains(p, q) == IsSubstring(toLowerCase(p.name), toLowerCase(q))

\* some field of the product contains the query, letter case ignored
SomeFieldContains(p, q) ==
  \/ NameContains(p, q)
  \/ IsSubstring(toLowerCase(p.description), toLowerCase(q))
  \/ IsSubstring(toLowerCase(p.category), toLowerCase(q))
  \/ \E k \in 1..Len(p.tags) : IsSubstring(toLowerCase(p.tags[k]), toLowerCase(q))

Returned(p) == \E k \in 1..Len(searchResult) : searchResult[k].id = p.id

PositionInResult(p) == CHOOSE k \in 1..Len(searchResult) : searchResult[k].id = p.id

\* wherever b is returned, a is returned at an earlier position
RankedBefore(a, b) ==
  Returned(b) => (Returned(a) /\ PositionInResult(a) < PositionInResult(b))

ExactNameScore == <<3, 1>>

\* C14 as stated: a product whose name contains the query scores at least 3
\* and is ranked before every product none of whose fields contains the query.
C14_ContainingNameBeforeNonContaining ==
  Searched =>
    \A i, j \in 1..Len(scoredProducts) :
      LET a == scoredProducts[i]
          b == scoredProducts[j]
      IN (NameContains(a.product, query) /\ ~SomeFieldContains(b.product, query)) =>
           /\ ~RLess(a.score, ExactNameScore)
           /\ RankedBefore(a.product, b.product)

\* C14: a product whose name contains the query (letter case ignored) scores
\* at least 3, and it is ranked before every returned product that scores
\* less than 3; a product none of whose fields contains the query may score
\* more and is then not ranked behind it.
C14_ContainingNameBeforeLowerScores ==
  Searched =>
    \A i, j \in 1..Len(scoredProducts) :
      LET a == scoredProducts[i]
          b == scoredProducts[j]
      IN NameContains(a.product, query) =>
           /\ ~RLess(a.score, ExactNameScore)
           /\ RLess(b.score, ExactNameScore) => RankedBefore(a.product, b.product)

\* a product listed first in the catalog scores less than 3 and is returned
\* behind a product the query names
C14_Witness ==
  /\ Searched
  /\ \E i, j \in 1..Len(scoredProducts) :
       LET a == scoredProducts[i]
           b == scoredProducts[j]
       IN /\ j < i
          /\ NameContains(a.product, query)
          /\ ~SomeFieldContains(b.product, query)
          /\ RLess(b.score, ExactNameScore)
          /\ Returned(a.product)
          /\ Returned(b.product)
          /\ PositionInResult(a.product) < PositionInResult(b.product)

\* every product scoring above the threshold, best first, nothing cut off
FullRanking ==
  LET sorted == sortByScore(filterScored(scoredProducts))
  IN [i \in 1..Len(sorted) |-> sorted[i].product]

\* the limit entries of a list that follow its first offset entries
PageOf(list, limit, offset) ==
  SubSeq(list, offset + 1, IF offset + limit < Len(list) THEN offset + limit ELSE Len(list))

\* C15: for a fixed query and catalog the page {limit: 2, offset: 0} and the
\* page {limit: 2, offset: 2} are the first two and the next two entries of
\* the full relevance-sorted list: no overlap, no gap.
C15_PagesPartitionRanking ==
  Searched =>
    /\ pageReturned(searchResult, 2, 0) = PageOf(FullRanking, 2, 0)
    /\ pageReturned(searchResult, 2, 2) = PageOf(FullRanking, 2, 2)

\* C16: the count a caller obtains for a search is the number of catalog
\* products that pass the threshold 0.3, also when more than 20 pass.
C16_TotalCountsEveryMatch ==
  Searched =>
    resultCount(searchResult) =
      Cardinality({i \in 1..Len(scoredProducts) : RLess(Threshold, scoredProducts[i].score)})

(***************************************************************************)
(* The Elasticsearch backend: failures, filters, sorting, validation.      *)
(***************************************************************************)
EsReturned == pc = "returned" /\ esRequests # <<>>

EsAnswered == EsReturned /\ ~esFailed

\* C12: when the Elasticsearch request of a search fails, what the caller
\* gets differs from the answer of a successful search without matches.
C12_FailureDistinguishable ==
  (EsReturned /\ esFailed) => esResult # emptyResponse

\* C17: every returned product satisfies each active non-price filter: the
\* category when one is given, inventory above 0 when in_stock is set,
\* featured when featured is set.
C17_NonPriceFiltersHold ==
  EsAnswered =>
    \A k \in 1..Len(esResult.products) :
      LET p == esResult.products[k]
      IN /\ filters.category # <<>> => p.category.id = filters.category[1]
         /\ filters.in_stock => p.inventory_quantity > 0
         /\ filters.featured => p.is_featured

\* C18: every returned product has price_min <= price <= price_max for each
\* bound that is supplied, the bound 0 included.
C18_PriceBoundsHold ==
  EsAnswered =>
    \A k \in 1..Len(esResult.products) :
      LET p == esResult.products[k]
      IN /\ filters.price_min # <<>> => filters.price_min[1] <= p.price
         /\ filters.price_max # <<>> => p.price <= filters.price_max[1]

\* C19: with sort price_asc the prices of the returned products never
\* decrease, with price_desc they never increase.
C19_SortedByPrice ==
  EsAnswered =>
    \A k, l \in 1..Len(esResult.products) :
      k < l =>
        /\ filters.sort = "price_asc" => esResult.products[k].price <= esResult.products[l].price
        /\ filters.sort = "price_desc" => esResult.products[k].price >= esResult.products[l].price

\* price_min above price_max, or a negative limit
OutOfRange(f) ==
  \/ f.price_min # <<>> /\ f.price_max # <<>> /\ f.price_min[1] > f.price_max[1]
  \/ f.limit # <<>> /\ f.limit[1] < 0

\* C20: a search with an out-of-range filter sends no request to the search
\* engine.
C20_OutOfRangeSendsNothing ==
  OutOfRange(filters) => esRequests = <<>>

(***************************************************************************)
(* Suggestions.                                                            *)
(***************************************************************************)
\* the name, the tags and the category of every product, in catalog order
CatalogStrings ==
  Concat([i \in 1..Len(mockProducts) |->
            <<mockProducts[i].name>> \o mockProducts[i].tags \o <<mockProducts[i].category>>])

SuggestionThreshold == <<1, 2>>

\* the catalog strings more similar to the query than 0.5, then the variants
\* of the query other than the query
SuggestionCandidates ==
  SelectSeq(CatalogStrings, LAMBDA c : RLess(SuggestionThreshold, fuzzyMatch(c, query)))
    \o SelectSeq(expandQueryWithSynonyms(query), LAMBDA v : v # query)

\* the first occurrence of every member of a sequence, in order
Distinct(seq) ==
  LET firsts == {i \in 1..Len(seq) : \A j \in 1..(i - 1) : seq[j] # seq[i]}
  IN [k \in 1..Cardinality(firsts) |->
        seq[CHOOSE i \in firsts : Cardinality({j \in firsts : j < i}) = k - 1]]

FirstFive(seq) == SubSeq(seq, 1, IF Len(seq) < 5 THEN Len(seq) ELSE 5)

SharesCharacter(a, b) ==
  \E i \in 1..Len(a) : \E j \in 1..Len(b) :
    Range(toLowerChar(a[i])) \cap Range(toLowerChar(b[j])) # {}

SingleEditScore == <<3, 10>>

\* C24: two strings one edit apart, the longer of at least 2 characters, have
\* a similarity above 0.3; two strings without a common character have
\* similarity 0.
C24_SingleEditAboveNoOverlapZero ==
  pc = "fuzzyMatch" =>
    /\ (EditDistance(text, query) = 1 /\ IntMax(Len(text), Len(query)) >= 2) =>
         RLess(SingleEditScore, fuzzyResult)
    /\ ~SharesCharacter(text, query) => fuzzyResult = Zero

\* no field of the product has a character in common with the variant
NoOverlap(p, v) ==
  /\ ~SharesCharacter(p.name, v)
  /\ ~SharesCharacter(p.description, v)
  /\ ~SharesCharacter(p.category, v)
  /\ \A k \in 1..Len(p.tags) : ~SharesCharacter(p.tags[k], v)

\* C25: a product whose name, description, tags and category have no
\* character in common (letter case ignored) with the query or any of its
\* variants scores exactly 0 and is not returned.
C25_NoOverlapScoresZero ==
  Searched =>
    \A i \in 1..Len(scoredProducts) :
      (\A v \in Range(expandQueryWithSynonyms(query)) : NoOverlap(mockProducts[i], v)) =>
        /\ scoredProducts[i].score = Zero
        /\ ~Returned(mockProducts[i])

\* a product without overlap next to a returned product, and a product
\* without overlap whose name is longer than the query
C25_Witness ==
  /\ Searched
  /\ searchResult # <<>>
  /\ \E i \in 1..Len(scoredProducts) :
       /\ \A v \in Range(expandResult) : NoOverlap(mockProducts[i], v)
       /\ Len(mockProducts[i].name) > Len(query)
       /\ scoredProducts[i].score = Zero

\* C26: every variant is the query with only whole tokens changed: the
\* variant has the query's runs of blanks and words, every run that differs
\* is a token of the query equal, letter case ignored, to one matched token
\* and holds a term of that token's group; every other word is as written.
C26_OnlyWholeTokensReplaced ==
  Expanded =>
    \A n \in 1..Len(expandResult) :
      LET rq == Runs(query)
          rv == Runs(expandResult[n])
          changed == {k \in 1..Len(rq) : k > Len(rv) \/ rv[k] # rq[k]}
      IN /\ Len(rv) = Len(rq)
         /\ \A k \in changed :
              /\ toLowerCase(rq[k]) \in MatchedTokens(query)
              /\ rv[k] \in GroupOf(toLowerCase(rq[k]))
         /\ \A k, l \in changed : toLowerCase(rq[k]) = toLowerCase(rq[l])

(***************************************************************************)
(* The storefront search box.                                              *)
(***************************************************************************)
\* C22: getSearchSuggestions with a query of fewer than 2 characters returns
\* the empty list and never waits for the catalog, and no performSearch call
\* of the search box, in flight or latest, has a query of fewer than 2
\* characters.
C22_ShortQueryNoFetchNoSearch ==
  /\ pc = "awaitGetProductsForSuggestions" => Len(query) >= 2
  /\ (pc = "suggested" /\ Len(query) < 2) => suggestionResult = <<>>
  /\ \A k \in 1..Len(pending) : Len(pending[k]) >= 2
  /\ lastIssued # <<>> => Len(lastIssued[1]) >= 2

\* a one-character query that is not blank was answered without a fetch, and
\* the effect of the search box has run on a one-character debounced query
\* without a search
C22_Witness ==
  /\ pc = "suggested"
  /\ Len(query) = 1
  /\ query[1] \notin WhiteSpace
  /\ Len(smartSearch.debouncedQuery) = 1
  /\ lastIssued = <<>>
  /\ fetches = 0

C28_LatestQueryWins ==
  (pending = <<>> /\ lastIssued # <<>> /\ ~clearRan) =>
    /\ searchContext.searchResults = searchProductsOf(mockProducts, lastIssued[1])
    /\ searchContext.searchSuggestions = getSearchSuggestionsOf(mockProducts, lastIssued[1])

\* C29: from a clearSearch of the search box until the next performSearch
\* call, the results and the suggestions are empty and isSearching is false.
C29_ClearedStaysCleared ==
  clearRan =>
    /\ searchContext.searchResults = <<>>
    /\ searchContext.searchSuggestions = <<>>
    /\ ~searchContext.isSearching

(***************************************************************************)
(* The advanced search page.                                               *)
(***************************************************************************)
\* the effect of AdvancedSearch has run in this step
EffectRan ==
  /\ advancedSearch'.mounted
  /\ \/ ~advancedSearch.mounted
     \/ advancedSearch'.filters # advancedSearch.filters
     \/ advancedSearch'.debouncedQuery # advancedSearch.debouncedQuery

\* no category selected, inStock false, featured false
NoFilterActive(f) == f.categories = <<>> /\ ~f.inStock /\ ~f.featured

\* C27: whenever the effect of AdvancedSearch runs with a debounced query of
\* fewer than 2 characters and no filter active, no search request is issued
\* and results, suggestions and the total are reset to empty, empty and 0.
C27_NoSearchWithoutQueryOrFilter ==
  [][(/\ EffectRan
      /\ Len(advancedSearch'.debouncedQuery) < 2
      /\ NoFilterActive(advancedSearch'.filters)) =>
       /\ inFlight' = inFlight
       /\ advancedSearch'.results = <<>>
       /\ advancedSearch'.suggestions = <<>>
       /\ advancedSearch'.totalResults = 0]_vars

(***************************************************************************)
(* Webhook delivery.                                                       *)
(***************************************************************************)
\* C30: for every webhook of an event at most 3 HTTP requests are made, and
\* once a request has been answered with a 2xx status no further request
\* is made to that webhook, whether or not the delivery record is written.
C30_ThreePostsNoneAfterSuccess ==
  \A w \in DOMAIN hooks :
    /\ hooks[w].posts <= 3
    /\ ~hooks[w].postedAgain

\* every sendToWebhook of the event comes to an end
SendToWebhookEnds ==
  <>(pc = "allSettled" /\ \A w \in DOMAIN hooks : hooks[w].pc \in {"returned", "rejected"})

\* at most 3 requests per webhook
AtMostThreePosts == \A w \in DOMAIN hooks : hooks[w].posts <= 3

====
